---- MODULE Spec2Model ----
\* AnoGAN detector (pyod/models/anogan.py): construction, fit, train_step,
\* fit_query and decision_function as a state machine over one detector
\* instance and its caller.
\*
\* Numbers: array entries are exact values num / sqrt(den2), so that the
\* StandardScaler ((x - mean) / std) is computed, not assumed.  Network
\* parameters, losses and scores are uninterpreted terms: a parameter set is
\* (which build initialised it, how many gradient updates it received), a
\* loss is the term of the values it was computed from.  dropout_rate is
\* counted in tenths (10 stands for 1.0).
EXTENDS Integers, Sequences, FiniteSets, TLC

\* ---------------------------------------------------------------- bounds
MaxCalls == 2
MaxEpochs == 2
MaxEpochsQuery == 2
MaxSamples == 2

\* latent_dim_G default of __init__
DefaultLatentDim == 2

\* ---------------------------------------------------------------- options
None == <<>>
Some(x) == <<x>>
IsSet(o) == o # <<>>
Get(o) == o[1]

\* ---------------------------------------------------------------- arrays
V(n, d2) == [num |-> n, den2 |-> d2]
Values == {V(0, 1), V(1, 1)}
ConstRow(f, v) == [j \in 1..f |-> v]
Array2D(rows, f) == [ndim |-> 2, shape |-> <<Len(rows), f>>, data |-> rows]

\* every array of 1..MaxSamples one-feature rows, and for each length the
\* two-feature array of equal rows
ValidArrays ==
    UNION { { Array2D(d, 1) : d \in [1..n -> {ConstRow(1, v) : v \in Values}] }
            \cup { Array2D([k \in 1..n |-> ConstRow(2, V(1, 1))], 2) }
            : n \in 1..MaxSamples }

\* 1-D vectors, a 3-D block and a 2-D array without rows
MalformedArrays ==
    { [ndim |-> 1, shape |-> <<n>>, data |-> ConstRow(n, V(0, 1))] : n \in 1..2 }
    \cup { [ndim |-> 3, shape |-> <<1, f, 1>>,
            data |-> << [j \in 1..f |-> <<V(1, 1)>>] >>] : f \in {1} }
    \cup { [ndim |-> 2, shape |-> <<0, 2>>, data |-> <<>>] }

Arrays == ValidArrays \cup MalformedArrays

\* sklearn check_array as called with its defaults: 2-D, at least one
\* sample and one feature.  TRUE when the array is accepted.
check_array(X) ==
    /\ X.ndim = 2
    /\ X.shape[1] >= 1
    /\ X.shape[2] >= 1

\* ---------------------------------------------------------------- scaler
RECURSIVE SumCol(_, _, _)
SumCol(rows, j, sq) ==
    IF rows = <<>> THEN 0
    ELSE (IF sq THEN rows[1][j].num * rows[1][j].num ELSE rows[1][j].num)
         + SumCol(Tail(rows), j, sq)

\* StandardScaler().fit: per feature the mean and the variance of the column,
\* kept as n, sum and sum of squares.
ScalerFit(X) ==
    [n |-> X.shape[1],
     sum |-> [j \in 1..X.shape[2] |-> SumCol(X.data, j, FALSE)],
     sumsq |-> [j \in 1..X.shape[2] |-> SumCol(X.data, j, TRUE)]]

\* (x - mean) / std = (n*x - sum) / sqrt(n*sumsq - sum^2); a constant column
\* has scale 1, so (x - mean) = (n*x - sum) / sqrt(n^2).
ScaleValue(s, j, x) ==
    LET var == s.n * s.sumsq[j] - s.sum[j] * s.sum[j]
    IN V(s.n * x.num - s.sum[j], IF var = 0 THEN s.n * s.n ELSE var)

ScalerAccepts(s, X) == X.shape[2] = Len(s.sum)

ScalerTransform(s, X) ==
    [k \in 1..X.shape[1] |-> [j \in 1..X.shape[2] |-> ScaleValue(s, j, X.data[k][j])]]

\* np.copy(X): a new array holding the same rows
np_copy(X) == [k \in 1..X.shape[1] |-> X.data[k]]

\* X_norm[[i],]: the 2-D array holding row i alone
RowSample(X_norm, i) == Array2D(<<X_norm[i]>>, Len(X_norm[i]))

\* ---------------------------------------------------------------- configuration
DropoutRates == {-1, 0, 9, 10, 11}
GLayerChoices == {<<>>, <<3>>}
DLayerChoices == {<<>>, <<3, 2>>}
IndexChoices == {0, 1}
BatchSizes == {1, 2}

\* utils.utility.check_parameter: TRUE when param lies in the interval
check_parameter(param, low, high, include_left, include_right) ==
    ~ (IF include_left /\ include_right THEN param < low \/ param > high
       ELSE IF include_left THEN param < low \/ param >= high
       ELSE IF include_right THEN param <= low \/ param > high
       ELSE param <= low \/ param >= high)

\* the call of check_parameter without include_left=True
DropoutCheckOpenLeft(dropout_rate) ==
    check_parameter(dropout_rate, 0, 10, FALSE, FALSE)

\* check_parameter(dropout_rate, 0, 1, param_name='dropout_rate', include_left=True)
DropoutCheck(dropout_rate) ==
    check_parameter(dropout_rate, 0, 10, TRUE, FALSE)

\* The defaults the variations start from, and the configurations tried: the
\* dropout rates, the layer lists with the embedding index, the training
\* budget with the batch size, the query budget with the scaler.
BaseConfig ==
    [dropout_rate |-> 0,
     latent_dim_G |-> DefaultLatentDim,
     G_layers |-> <<3>>,
     D_layers |-> <<3, 2>>,
     index_D_layer_for_recon_error |-> 1,
     epochs |-> 1,
     epochs_query |-> 1,
     batch_size |-> 1,
     preprocessing |-> FALSE,
     contamination |-> 1]

Configs ==
    { [BaseConfig EXCEPT !.dropout_rate = r] : r \in DropoutRates }
    \cup { [BaseConfig EXCEPT !.G_layers = g[1], !.D_layers = g[2],
                              !.index_D_layer_for_recon_error = g[3]]
           : g \in GLayerChoices \X DLayerChoices \X IndexChoices }
    \cup { [BaseConfig EXCEPT !.epochs = e[1], !.batch_size = e[2]]
           : e \in (0..MaxEpochs) \X BatchSizes }
    \cup { [BaseConfig EXCEPT !.epochs_query = e[1], !.preprocessing = e[2]]
           : e \in (0..MaxEpochsQuery) \X BOOLEAN }

\* ---------------------------------------------------------------- detector state
NoDetector ==
    [n_samples_ |-> None, n_features_ |-> None,
     generator |-> None, discriminator |-> None,
     hist_loss_generator |-> None, hist_loss_discriminator |-> None,
     scaler_ |-> None, query_model |-> None,
     decision_scores_ |-> None, threshold_ |-> None, labels_ |-> None]

NoFrame == [op |-> "none", X |-> None, X_norm |-> <<>>, n |-> 0, i |-> 0, scores |-> <<>>]
NoQuery == [state |-> "none", caller |-> "none", sample |-> None, i |-> 0,
            total_loss |-> None, error |-> "none"]
NoOutcome == [op |-> "none", status |-> "none", arg |-> None, result |-> None]
NoAccess == [gen |-> {}, disc |-> {}]

VARIABLES
    pc,        \* where the caller / the running method stands
    cfg,       \* hyperparameters stored by __init__ (None before)
    det,       \* the detector's attributes set by fit / fit_query
    adam,      \* the live Adam optimizer objects: id -> state
    fr,        \* frame of the running fit / decision_function
    q,         \* frame of the running (or just ended) fit_query
    outcome,   \* how the last top-level call ended
    calls,     \* top-level method calls made on the detector
    pre,       \* det when the last top-level call started
    qpre,      \* det when the last fit_query started
    qlog,      \* fit_query invocations of the last top-level call
    trained,   \* train_step calls of the last fit
    fitted,    \* a fit call has completed
    optAccess  \* optimizer cells used by the two updates of the last train_step

vars == <<pc, cfg, det, adam, fr, q, outcome, calls, pre, qpre, qlog, trained,
          fitted, optAccess>>

Init ==
    /\ pc = "new"
    /\ cfg = None
    /\ det = NoDetector
    /\ adam = <<>>
    /\ fr = NoFrame
    /\ q = NoQuery
    /\ outcome = NoOutcome
    /\ calls = 0
    /\ pre = NoDetector
    /\ qpre = NoDetector
    /\ qlog = <<>>
    /\ trained = 0
    /\ fitted = FALSE
    /\ optAccess = NoAccess

\* ---------------------------------------------------------------- __init__
\* The attributes are stored first and dropout_rate is checked last; when the
\* check raises, the caller gets no detector.
Construct(c) ==
    /\ pc = "new"
    /\ IF DropoutCheck(c.dropout_rate)
       THEN /\ pc' = "idle"
            /\ cfg' = Some(c)
            /\ outcome' = [op |-> "__init__", status |-> "ok",
                           arg |-> Some(c.dropout_rate), result |-> None]
       ELSE /\ pc' = "new"
            /\ cfg' = None
            /\ outcome' = [op |-> "__init__", status |-> "ValueError",
                           arg |-> Some(c.dropout_rate), result |-> None]
    /\ UNCHANGED <<det, adam, fr, q, calls, pre, qpre, qlog, trained, fitted, optAccess>>

\* ---------------------------------------------------------------- Adam objects
\* An optimizer object is addressed by its id; objects no attribute of the
\* detector refers to any more are dropped, and a new object takes the
\* smallest free id.
NewAdam(lr) == [learning_rate |-> lr, iterations |-> 0, slots |-> {}]

OptimizerOf(m) ==
    IF IsSet(m) /\ IsSet(Get(m).optimizer) THEN {Get(Get(m).optimizer)} ELSE {}

Live(d) ==
    OptimizerOf(d.generator) \cup OptimizerOf(d.discriminator) \cup OptimizerOf(d.query_model)

Collect(h, d) == [i \in (DOMAIN h) \cap Live(d) |-> h[i]]

NewId(h) ==
    CHOOSE i \in 1..(Cardinality(DOMAIN h) + 1) :
        /\ i \notin DOMAIN h
        /\ \A j \in 1..(i - 1) : j \in DOMAIN h

\* optimizer.apply_gradients on the variables named: the step counter is read
\* and incremented, the moment accumulators (slots) of each variable are
\* created on first use, read and written.
apply_gradients(h, id, variables) ==
    [h EXCEPT ![id] = [@ EXCEPT !.iterations = @ + 1, !.slots = @ \cup variables]]

AdamCells(id, variables) ==
    {<<id, "iterations">>} \cup {<<id, v>> : v \in variables}

Updated(params) == [params EXCEPT !.steps = @ + 1]

\* ---------------------------------------------------------------- _build_model
\* D_hl_dict['hl_{index}'] exists for the indices 0 .. len(D_layers)-1
HasHiddenLayerOneBased(D_layers, index) == index \in 0..Len(D_layers)

HasHiddenLayer(D_layers, index) == index \in 0..(Len(D_layers) - 1)

\* a history that is kept when the detector already has one
KeepHistory(old) == IF IsSet(old) THEN Get(old) ELSE <<>>

\* self.hist_loss_generator = [] / self.hist_loss_discriminator = []
NewHistory(old) == <<>>

\* An empty G_layers leaves the loop body unrun: the generator is the input
\* dropout followed by the output layer.  The generator and its history are
\* assigned before the discriminator's embedding layer is looked up.
build_model(c, d, h, callNo) ==
    LET gen == [hidden |-> c.G_layers, out |-> Get(d.n_features_),
                params |-> [init |-> callNo, steps |-> 0], optimizer |-> None]
        d1 == [d EXCEPT !.generator = Some(gen),
                        !.hist_loss_generator = Some(NewHistory(d.hist_loss_generator))]
    IN  IF ~HasHiddenLayer(c.D_layers, c.index_D_layer_for_recon_error)
        THEN [error |-> "KeyError", det |-> d1, adam |-> Collect(h, d1)]
        ELSE LET disc == [hidden |-> c.D_layers, in |-> Get(d.n_features_),
                          embedding |-> c.index_D_layer_for_recon_error,
                          params |-> [init |-> callNo, steps |-> 0],
                          optimizer |-> None]
                 d2 == [d1 EXCEPT !.discriminator = Some(disc),
                                  !.hist_loss_discriminator =
                                      Some(NewHistory(d.hist_loss_discriminator))]
                 h1 == Collect(h, d2)
                 opt == NewId(h1)
                 d3 == [d2 EXCEPT !.generator = Some([gen EXCEPT !.optimizer = Some(opt)]),
                                  !.discriminator = Some([disc EXCEPT !.optimizer = Some(opt)])]
             IN  [error |-> "none", det |-> d3,
                  adam |-> [i \in (DOMAIN h1) \cup {opt} |->
                               IF i = opt THEN NewAdam("learning_rate") ELSE h1[i]]]

\* ---------------------------------------------------------------- train_step
\* One generator update and one discriminator update, each through the
\* optimizer its model was compiled with, then one entry appended to each
\* history.  batch is the number of rows of the minibatch.
train_step(d, h, batch) ==
    LET g == Get(d.generator)
        dd == Get(d.discriminator)
        total_loss_generator ==
            [loss |-> "generator", gen |-> g.params, disc |-> dd.params, batch |-> batch]
        total_loss_discriminator ==
            [loss |-> "discriminator", gen |-> g.params, disc |-> dd.params, batch |-> batch]
        h1 == apply_gradients(h, Get(g.optimizer), {"generator"})
        h2 == apply_gradients(h1, Get(dd.optimizer), {"discriminator"})
    IN  [det |-> [d EXCEPT
                    !.generator = Some([g EXCEPT !.params = Updated(@)]),
                    !.discriminator = Some([dd EXCEPT !.params = Updated(@)]),
                    !.hist_loss_generator =
                        Some(Append(Get(@), total_loss_generator)),
                    !.hist_loss_discriminator =
                        Some(Append(Get(@), total_loss_discriminator))],
         adam |-> h2,
         access |-> [gen |-> AdamCells(Get(g.optimizer), {"generator"}),
                     disc |-> AdamCells(Get(dd.optimizer), {"discriminator"})]]

\* ---------------------------------------------------------------- fit
Min(a, b) == IF a < b THEN a ELSE b

Perms(n) == {p \in [1..n -> 1..n] : \A i, j \in 1..n : i # j => p[i] # p[j]}

\* the shape assigned to the detector before the input is validated
FitPrologueAssignFirst(c, d, h, X, callNo) ==
    IF X.ndim < 2
    THEN [error |-> "IndexError", det |-> d, adam |-> h, X_norm |-> <<>>]
    ELSE LET d0 == [d EXCEPT !.n_samples_ = Some(X.shape[1]),
                             !.n_features_ = Some(X.shape[2])]
             b == build_model(c, d0, h, callNo)
         IN  IF ~check_array(X)
             THEN [error |-> "ValueError", det |-> d0, adam |-> h, X_norm |-> <<>>]
             ELSE IF b.error # "none"
             THEN [error |-> b.error, det |-> b.det, adam |-> b.adam, X_norm |-> <<>>]
             ELSE IF c.preprocessing
             THEN [error |-> "none",
                   det |-> [b.det EXCEPT !.scaler_ = Some(ScalerFit(X))],
                   adam |-> b.adam, X_norm |-> ScalerTransform(ScalerFit(X), X)]
             ELSE [error |-> "none", det |-> b.det, adam |-> b.adam,
                   X_norm |-> np_copy(X)]

\* check_array, the shape attributes, _build_model and the first X_norm
FitPrologue(c, d, h, X, callNo) ==
    IF ~check_array(X)
    THEN [error |-> "ValueError", det |-> d, adam |-> h, X_norm |-> <<>>]
    ELSE LET d0 == [d EXCEPT !.n_samples_ = Some(X.shape[1]),
                             !.n_features_ = Some(X.shape[2])]
             b == build_model(c, d0, h, callNo)
         IN  IF b.error # "none"
             THEN [error |-> b.error, det |-> b.det, adam |-> b.adam, X_norm |-> <<>>]
             ELSE IF c.preprocessing
             THEN [error |-> "none",
                   det |-> [b.det EXCEPT !.scaler_ = Some(ScalerFit(X))],
                   adam |-> b.adam, X_norm |-> ScalerTransform(ScalerFit(X), X)]
             ELSE [error |-> "none", det |-> b.det, adam |-> b.adam,
                   X_norm |-> np_copy(X)]

\* a top-level call ends with an exception
Raise(op, X, error) ==
    /\ pc' = "returned"
    /\ fr' = NoFrame
    /\ outcome' = [op |-> op, status |-> error, arg |-> Some(X), result |-> None]

FitStart(X) ==
    /\ pc = "idle"
    /\ calls < MaxCalls
    /\ calls' = calls + 1
    /\ pre' = det
    /\ qlog' = <<>>
    /\ trained' = 0
    /\ q' = NoQuery
    /\ LET r == FitPrologue(Get(cfg), det, adam, X, calls + 1)
       IN  /\ det' = r.det
           /\ adam' = r.adam
           /\ IF r.error # "none"
              THEN Raise("fit", X, r.error)
              ELSE /\ pc' = "fit_train"
                   /\ fr' = [op |-> "fit", X |-> Some(X), X_norm |-> r.X_norm,
                             n |-> 0, i |-> 0, scores |-> <<>>]
                   /\ outcome' = NoOutcome
    /\ UNCHANGED <<cfg, qpre, fitted, optAccess>>

\* one pass of the epoch loop: shuffle X_norm in place, take the first
\* min(batch_size, n_samples_) rows, run one train_step
FitEpoch(p) ==
    /\ pc = "fit_train"
    /\ fr.n < Get(cfg).epochs
    /\ LET shuffled == [k \in 1..Len(fr.X_norm) |-> fr.X_norm[p[k]]]
           X_train_sel == SubSeq(shuffled, 1,
                                 Min(Get(cfg).batch_size, Get(det.n_samples_)))
           t == train_step(det, adam, Len(X_train_sel))
       IN  /\ det' = t.det
           /\ adam' = t.adam
           /\ optAccess' = t.access
           /\ fr' = [fr EXCEPT !.X_norm = shuffled, !.n = @ + 1]
    /\ trained' = trained + 1
    /\ UNCHANGED <<pc, cfg, q, outcome, calls, pre, qpre, qlog, fitted>>

\* scoring the rows in the order the training loop left them
KeepShuffled(c, d, X, shuffled) == shuffled

\* X_norm recreated from X after the training loop
Rederive(c, d, X, shuffled) ==
    IF c.preprocessing THEN ScalerTransform(Get(d.scaler_), X) ELSE np_copy(X)

FitRederive ==
    /\ pc = "fit_train"
    /\ fr.n >= Get(cfg).epochs
    /\ pc' = "fit_score"
    /\ fr' = [fr EXCEPT !.X_norm = Rederive(Get(cfg), det, Get(fr.X), fr.X_norm),
                        !.i = 0, !.scores = <<>>]
    /\ UNCHANGED <<cfg, det, adam, q, outcome, calls, pre, qpre, qlog, trained,
                   fitted, optAccess>>

\* ---------------------------------------------------------------- fit_query
\* the two asserts, then the reads of self.generator and self.discriminator
QueryEntryError(d, sample) ==
    IF sample.shape[1] # 1 THEN "AssertionError"
    ELSE IF Len(sample.shape) < 2 THEN "IndexError"
    ELSE IF ~IsSet(d.n_features_) THEN "AttributeError"
    ELSE IF sample.shape[2] # Get(d.n_features_) THEN "AssertionError"
    ELSE IF ~IsSet(d.generator) \/ ~IsSet(d.discriminator) THEN "AttributeError"
    ELSE "none"

\* self.query_model: the Dense layer z_gamma on the zero pseudo-input, then the
\* generator and the discriminator as nested models; its trainable variables
\* in layer order
QueryModel(c) ==
    [affine |-> [dim |-> c.latent_dim_G, steps |-> 0],
     trainable_variables |->
         <<"z_gamma/kernel", "z_gamma/bias", "generator", "discriminator">>,
     optimizer |-> None]

\* self.query_model = Model(...); opt = Adam(learning_rate_query); compile
QueryPrologue(c, d, h) ==
    LET d1 == [d EXCEPT !.query_model = Some(QueryModel(c))]
        h1 == Collect(h, d1)
        opt == NewId(h1)
    IN  [det |-> [d1 EXCEPT !.query_model = Some([QueryModel(c) EXCEPT !.optimizer = Some(opt)])],
         adam |-> [i \in (DOMAIN h1) \cup {opt} |->
                      IF i = opt THEN NewAdam("learning_rate_query") ELSE h1[i]]]

\* every trainable variable of the query model handed to the optimizer
AllTrainableVariables(trainable_variables) == trainable_variables

\* self.query_model.trainable_variables[0:2]
QueryVariables(trainable_variables) == SubSeq(trainable_variables, 1, 2)

Range(s) == {s[k] : k \in 1..Len(s)}

loss_recon_gen(sample, qm, g) ==
    [mean_abs_err |-> "sample_gen", sample |-> sample.data, z |-> qm.affine,
     gen |-> g.params]

loss_recon_disc(sample, qm, g, dd) ==
    [mean_abs_err |-> "sample_disc_latent", sample |-> sample.data, z |-> qm.affine,
     gen |-> g.params, disc |-> dd.params, layer |-> dd.embedding]

\* loss_recon_gen + loss_recon_disc, both with weight one
TotalLoss(sample, qm, g, dd) ==
    [sum |-> <<loss_recon_gen(sample, qm, g), loss_recon_disc(sample, qm, g, dd)>>]

\* one pass of the query loop: the loss, then one update of the selected
\* variables through the query model's optimizer
QueryStep(d, h, sample) ==
    LET qm == Get(d.query_model)
        g == Get(d.generator)
        dd == Get(d.discriminator)
        selected == Range(QueryVariables(qm.trainable_variables))
        qm1 == IF selected \cap {"z_gamma/kernel", "z_gamma/bias"} # {}
               THEN [qm EXCEPT !.affine.steps = @ + 1] ELSE qm
        g1 == IF "generator" \in selected THEN [g EXCEPT !.params = Updated(@)] ELSE g
        dd1 == IF "discriminator" \in selected THEN [dd EXCEPT !.params = Updated(@)] ELSE dd
    IN  [total_loss |-> TotalLoss(sample, qm, g, dd),
         det |-> [d EXCEPT !.query_model = Some(qm1), !.generator = Some(g1),
                           !.discriminator = Some(dd1)],
         adam |-> apply_gradients(h, Get(qm.optimizer), selected)]

\* fit_query is entered from caller with sample: asserts, query model
QueryEnter(caller, sample, log) ==
    /\ qpre' = det
    /\ qlog' = Append(log, [sample |-> sample, result |-> None])
    /\ LET e == QueryEntryError(det, sample)
       IN  IF e # "none"
           THEN /\ Raise(caller, IF caller = "fit_query" THEN sample ELSE Get(fr.X), e)
                /\ q' = [state |-> "raised", caller |-> caller, sample |-> Some(sample),
                         i |-> 0, total_loss |-> None, error |-> e]
                /\ UNCHANGED <<det, adam>>
           ELSE LET r == QueryPrologue(Get(cfg), det, adam)
                IN  /\ det' = r.det
                    /\ adam' = r.adam
                    /\ pc' = "fit_query"
                    /\ q' = [state |-> "running", caller |-> caller,
                             sample |-> Some(sample), i |-> 0, total_loss |-> None,
                             error |-> "none"]
                    /\ outcome' = NoOutcome
                    /\ UNCHANGED fr

\* the discriminator is called on the query sample itself; a sample that is not
\* a batch of feature vectors is refused by the model's input check
QueryIter ==
    /\ pc = "fit_query"
    /\ q.i < Get(cfg).epochs_query
    /\ IF Get(q.sample).ndim # 2
       THEN /\ Raise(q.caller, IF q.caller = "fit_query" THEN Get(q.sample) ELSE Get(fr.X),
                     "ValueError")
            /\ q' = [q EXCEPT !.state = "raised", !.error = "ValueError"]
            /\ UNCHANGED <<det, adam>>
       ELSE LET r == QueryStep(det, adam, Get(q.sample))
            IN  /\ det' = r.det
                /\ adam' = r.adam
                /\ q' = [q EXCEPT !.i = @ + 1, !.total_loss = Some(r.total_loss)]
                /\ UNCHANGED <<pc, fr, outcome>>
    /\ UNCHANGED <<cfg, calls, pre, qpre, qlog, trained, fitted, optAccess>>

\* return total_loss.numpy(): total_loss is bound by the loop body alone
QueryReturn ==
    /\ pc = "fit_query"
    /\ q.i >= Get(cfg).epochs_query
    /\ IF ~IsSet(q.total_loss)
       THEN /\ Raise(q.caller, IF q.caller = "fit_query" THEN Get(q.sample) ELSE Get(fr.X),
                     "UnboundLocalError")
            /\ q' = [q EXCEPT !.state = "raised", !.error = "UnboundLocalError"]
            /\ UNCHANGED qlog
       ELSE /\ q' = [q EXCEPT !.state = "returned"]
            /\ qlog' = [qlog EXCEPT ![Len(qlog)].result = q.total_loss]
            /\ IF q.caller = "fit_query"
               THEN /\ pc' = "returned"
                    /\ outcome' = [op |-> "fit_query", status |-> "ok",
                                   arg |-> q.sample, result |-> q.total_loss]
                    /\ UNCHANGED fr
               ELSE /\ pc' = IF q.caller = "fit" THEN "fit_score" ELSE "df_score"
                    /\ fr' = [fr EXCEPT !.scores = Append(@, Get(q.total_loss)),
                                        !.i = @ + 1]
                    /\ UNCHANGED outcome
    /\ UNCHANGED <<cfg, det, adam, calls, pre, qpre, trained, fitted, optAccess>>

\* fit_query called by the user of the detector
FitQueryCall(sample) ==
    /\ pc = "idle"
    /\ calls < MaxCalls
    /\ calls' = calls + 1
    /\ pre' = det
    /\ QueryEnter("fit_query", sample, <<>>)
    /\ UNCHANGED <<cfg, trained, fitted, optAccess>>

\* ---------------------------------------------------------------- scoring in fit
FitQuerySample ==
    /\ pc = "fit_score"
    /\ fr.i < Len(fr.X_norm)
    /\ QueryEnter("fit", RowSample(fr.X_norm, fr.i + 1), qlog)
    /\ UNCHANGED <<cfg, calls, pre, trained, fitted, optAccess>>

\* BaseDetector._process_decision_scores: the threshold is the
\* (1 - contamination) percentile of the scores, a label says whether its
\* score lies above the threshold
process_decision_scores(c, d) ==
    [d EXCEPT !.threshold_ = Some([percentile |-> 100 - 10 * c.contamination,
                                   of |-> Get(d.decision_scores_)]),
              !.labels_ = Some([above_threshold |-> Get(d.decision_scores_)])]

FitFinish ==
    /\ pc = "fit_score"
    /\ fr.i >= Len(fr.X_norm)
    /\ det' = process_decision_scores(Get(cfg),
                  [det EXCEPT !.decision_scores_ = Some(fr.scores)])
    /\ fitted' = TRUE
    /\ pc' = "returned"
    /\ outcome' = [op |-> "fit", status |-> "ok", arg |-> fr.X, result |-> None]
    /\ fr' = NoFrame
    /\ q' = NoQuery
    /\ UNCHANGED <<cfg, adam, calls, pre, qpre, qlog, trained, optAccess>>

\* ---------------------------------------------------------------- decision_function
\* a fitted check that looks at the generator instead of decision_scores_
IsFittedByGenerator(d) == IsSet(d.generator)

\* check_is_fitted(self, ['decision_scores_'])
IsFitted(d) == IsSet(d.decision_scores_)

\* the fitted check, check_array, then the scaler or the copy
DfPrologue(c, d, X) ==
    IF ~IsFitted(d) THEN [error |-> "NotFittedError", X_norm |-> <<>>]
    ELSE IF ~check_array(X) THEN [error |-> "ValueError", X_norm |-> <<>>]
    ELSE IF c.preprocessing
    THEN IF ~IsSet(d.scaler_) THEN [error |-> "AttributeError", X_norm |-> <<>>]
         ELSE IF ~ScalerAccepts(Get(d.scaler_), X)
         THEN [error |-> "ValueError", X_norm |-> <<>>]
         ELSE [error |-> "none", X_norm |-> ScalerTransform(Get(d.scaler_), X)]
    ELSE [error |-> "none", X_norm |-> np_copy(X)]

DfStart(X) ==
    /\ pc = "idle"
    /\ calls < MaxCalls
    /\ calls' = calls + 1
    /\ pre' = det
    /\ qlog' = <<>>
    /\ q' = NoQuery
    /\ LET r == DfPrologue(Get(cfg), det, X)
       IN  IF r.error # "none"
           THEN Raise("decision_function", X, r.error)
           ELSE /\ pc' = "df_score"
                /\ fr' = [op |-> "decision_function", X |-> Some(X),
                          X_norm |-> r.X_norm, n |-> 0, i |-> 0, scores |-> <<>>]
                /\ outcome' = NoOutcome
    /\ UNCHANGED <<cfg, det, adam, qpre, trained, fitted, optAccess>>

DfQuerySample ==
    /\ pc = "df_score"
    /\ fr.i < Len(fr.X_norm)
    /\ QueryEnter("decision_function", RowSample(fr.X_norm, fr.i + 1), qlog)
    /\ UNCHANGED <<cfg, calls, pre, trained, fitted, optAccess>>

DfFinish ==
    /\ pc = "df_score"
    /\ fr.i >= Len(fr.X_norm)
    /\ pc' = "returned"
    /\ outcome' = [op |-> "decision_function", status |-> "ok", arg |-> fr.X,
                   result |-> Some(fr.scores)]
    /\ fr' = NoFrame
    /\ q' = NoQuery
    /\ UNCHANGED <<cfg, det, adam, calls, pre, qpre, qlog, trained, fitted, optAccess>>

\* ---------------------------------------------------------------- the caller
\* The caller has the result or the exception of its call and goes on; what
\* was recorded about the finished call is dropped.
Continue ==
    /\ pc = "returned"
    /\ pc' = "idle"
    /\ outcome' = NoOutcome
    /\ q' = NoQuery
    /\ pre' = NoDetector
    /\ qpre' = NoDetector
    /\ qlog' = <<>>
    /\ trained' = 0
    /\ optAccess' = NoAccess
    /\ UNCHANGED <<cfg, det, adam, fr, calls, fitted>>

\* ---------------------------------------------------------------- specification
Next ==
    \/ \E c \in Configs : Construct(c)
    \/ \E X \in Arrays : FitStart(X)
    \/ (pc = "fit_train" /\ \E p \in Perms(Len(fr.X_norm)) : FitEpoch(p))
    \/ FitRederive
    \/ FitQuerySample
    \/ FitFinish
    \/ \E X \in Arrays : DfStart(X)
    \/ DfQuerySample
    \/ DfFinish
    \/ \E sample \in Arrays : FitQueryCall(sample)
    \/ QueryIter
    \/ QueryReturn
    \/ Continue

Spec == Init /\ [][Next]_vars

TypeOK ==
    /\ pc \in {"new", "idle", "returned", "fit_train", "fit_score", "df_score", "fit_query"}
    /\ calls \in 0..MaxCalls

\* ---------------------------------------------------------------- properties
Returned(op) == pc = "returned" /\ outcome.op = op
Completed(op) == Returned(op) /\ outcome.status = "ok"

\* C1: after every completed fit the generator loss history and the
\* discriminator loss history each hold exactly `epochs` entries, one per
\* train_step and one train_step per epoch, whatever the number of samples and
\* the batch size, and also when the detector had been fitted before.
C1_HistoryLengthIsEpochs ==
    Completed("fit") =>
        /\ Len(Get(det.hist_loss_generator)) = Get(cfg).epochs
        /\ Len(Get(det.hist_loss_discriminator)) = Get(cfg).epochs
        /\ trained = Get(cfg).epochs

\* a second fit, two epochs over two samples in batches of one, on a detector
\* whose histories already held two entries
C1_Witness ==
    /\ Completed("fit")
    /\ IsSet(pre.decision_scores_)
    /\ Len(Get(pre.hist_loss_generator)) >= 2
    /\ Get(cfg).epochs >= 2
    /\ Get(cfg).batch_size = 1
    /\ Get(det.n_samples_) = 2

\* C2: from the entry of a fit_query call to its end, whether it was called
\* from fit, from decision_function or by the user, the generator and the
\* discriminator are the ones the call found; a decision_function call, however
\* it ends, leaves the generator and the discriminator as they were.
C2_QueryFreezesNetworks ==
    /\ q.state \in {"running", "returned", "raised"} =>
           /\ det.generator = qpre.generator
           /\ det.discriminator = qpre.discriminator
    /\ (pc = "df_score" \/ Returned("decision_function") \/ Returned("fit_query")
        \/ (pc = "fit_query" /\ q.caller # "fit")) =>
           /\ det.generator = pre.generator
           /\ det.discriminator = pre.discriminator

\* a decision_function call over two rows has returned; the affine map was
\* updated and the networks had been trained
C2_Witness ==
    /\ Completed("decision_function")
    /\ Len(Get(outcome.result)) >= 2
    /\ Get(det.query_model).affine.steps >= 1
    /\ Get(det.generator).params.steps >= 1
    /\ calls >= 2

\* C3: in a train_step no optimizer state used by the generator's update is
\* used by the discriminator's update.
C3_SeparateOptimizerState == optAccess.gen \cap optAccess.disc = {}

\* C4: decision_function on a detector on which no fit has completed ends with
\* the not-fitted error, returns no scores and starts no latent query.
C4_NotFittedError ==
    /\ (Returned("decision_function") /\ ~fitted) =>
           /\ outcome.status = "NotFittedError"
           /\ outcome.result = None
           /\ qlog = <<>>
    /\ (pc = "df_score" \/ (pc = "fit_query" /\ q.caller = "decision_function")) => fitted

\* decision_function refused on a detector whose only fit failed after the
\* generator had been built
C4_Witness ==
    /\ Returned("decision_function")
    /\ ~fitted
    /\ IsSet(det.generator)
    /\ outcome.status = "NotFittedError"

\* the rows the scores of X are about: X through the scaler when configured
ScoredRows(op, X) ==
    IF ~Get(cfg).preprocessing THEN X.data
    ELSE IF op = "fit" THEN ScalerTransform(ScalerFit(X), X)
    ELSE ScalerTransform(Get(det.scaler_), X)

ScoresOf(op) ==
    IF op = "fit" THEN Get(det.decision_scores_) ELSE Get(outcome.result)

ScoresFollowInput(op) ==
    Completed(op) =>
        LET X == Get(outcome.arg)
            rows == ScoredRows(op, X)
            scores == ScoresOf(op)
        IN  /\ Len(scores) = X.shape[1]
            /\ Len(qlog) = X.shape[1]
            /\ \A k \in 1..X.shape[1] :
                   /\ qlog[k].sample = Array2D(<<rows[k]>>, X.shape[2])
                   /\ qlog[k].result = Some(scores[k])
                   /\ scores[k].sum[1].sample = <<rows[k]>>

\* C5: decision_scores_ after fit(X) and the sequence decision_function(X)
\* returns hold one score per row of X, the k-th being the result of the k-th
\* fit_query call of that fit / decision_function, made on the k-th row of X as
\* passed (through the scaler when configured), whatever the epochs shuffled.
C5_ScoresInInputOrder ==
    ScoresFollowInput("fit") /\ ScoresFollowInput("decision_function")

\* a fit with the scaler over two different rows, after a training epoch
C5_Witness ==
    /\ Completed("fit")
    /\ Get(cfg).preprocessing
    /\ trained >= 1
    /\ Get(outcome.arg).shape[1] >= 2
    /\ Get(outcome.arg).data[1] # Get(outcome.arg).data[2]

Listed(d) ==
    <<d.generator, d.discriminator, d.n_features_, d.hist_loss_generator,
      d.hist_loss_discriminator, d.decision_scores_, d.threshold_, d.labels_>>

WrongFeatureCount(X, d) == X.ndim = 2 /\ X.shape[2] # Get(d.n_features_)

MethodCalls == {"fit", "decision_function", "fit_query"}

C8_QueryLeavesNoState == q.state = "returned" => det = qpre

BuildFailed ==
    /\ pc \notin {"fit_train", "fit_score"}
    /\ ~(pc = "fit_query" /\ q.caller = "fit")
    /\ trained = 0
    /\ ~fitted
    /\ (Returned("fit") /\ check_array(Get(outcome.arg))) => outcome.status = "KeyError"

C10_ReturnsFinalLoss ==
    (q.state = "returned" \/ (q.state = "raised" /\ q.error = "UnboundLocalError")) =>
        /\ q.state = "returned"
        /\ q.i = Get(cfg).epochs_query
        /\ Get(det.query_model).affine.steps = Get(cfg).epochs_query
        /\ Get(q.total_loss).sum[1].z.steps = Get(cfg).epochs_query - 1

====
